---- MODULE Spec2Model ----
(***************************************************************************)
(* A model of the Tooltip component (src/components/Tooltip/Tooltip.js).   *)
(*                                                                         *)
(* JavaScript values are written as strings: "undefined", "null", "true",  *)
(* "false".  DOM nodes are named by where they are: a node of an event is  *)
(* "trigger" (inside this.triggerEl), "panel" (inside the floating panel), *)
(* "elsewhere", or "detached" (inside a floating panel that has been       *)
(* unmounted since the event was captured).                                *)
(***************************************************************************)
EXTENDS Integers, Sequences, FiniteSets

VARIABLES
  props,            \* this.props, defaultProps applied: open, clickToOpen, showIcon
  state,            \* this.state: open, prevOpen, triggerPosition
  phase,            \* "constructed", "mounted" or "unmounted"
  triggerEl,        \* this.triggerEl: "null" or "el"
  _tooltipEl,       \* this._tooltipEl: "null" or "el"
  _hasContextMenu,  \* this._hasContextMenu
  pending,          \* the arguments the debounced _handleHover holds, or NoCall
  sinceLast,        \* milliseconds since the debounced function was last called
  rafPending,       \* the requestAnimationFrame callback of componentDidMount waits
  rendered,         \* what the last render() put in the page: panel, ariaOwns, target
  hasContains,      \* whether this.triggerEl has a contains() method
  dom,              \* the page: the methods of Element.prototype, the trigger's ancestors
  ids,              \* this.triggerId, this.tooltipId and the Math.random calls made
  menu,             \* a call of getMenuOffset: direction, arrow style, result
  immediateClose,   \* history: open was closed at once and no event came since
  lastCall,         \* history: the arguments of the latest debounced call not yet invoked
  burst,            \* history: debounced calls since the timer was last idle, up to MaxBurst
  lateSetState,     \* history: setState was called on the unmounted component
  last              \* history: the step taken last

vars == <<props, state, phase, triggerEl, _tooltipEl, _hasContextMenu, pending,
          sinceLast, rafPending, rendered, hasContains, dom, ids, menu,
          lastCall, burst, lateSetState, immediateClose, last>>

\* The wait of debounce(this._handleHover, 200).
Wait == 200

\* How far one step of the clock advances time, in milliseconds.
TickMs == 100

\* How many debounced calls of one burst the history counts.
MaxBurst == 2

\* Math.random is called at most MaxDrawn times with a new result.
MaxDrawn == 4

JSBool == {"true", "false"}

Truthy(v) == v = "true"

\* The ! of JavaScript: a boolean, whatever the operand.
Not(v) == IF Truthy(v) THEN "false" ELSE "true"

Min(a, b) == IF a < b THEN a ELSE b

\* The values an owner can pass as the open prop.
OpenProps == {"undefined", "true", "false"}

HoverTypes == {"mouseover", "mouseout", "focus", "blur"}

Nodes == {"null", "trigger", "panel", "elsewhere"}

KeyEvents ==
  { [key |-> "Enter", which |-> 13], [key |-> " ", which |-> 32],
    [key |-> "", which |-> 13], [key |-> "", which |-> 32],
    [key |-> "Tab", which |-> 9] }

NoCall == [state |-> "none", relatedTarget |-> "null"]

NoKey == [key |-> "", which |-> 0]

\* The record of a step: the action, the DOM event's type (for SetProps the
\* open prop given, for ClickOutside the target), whether a handler of the
\* component ran, whether it called stopPropagation, whether it dropped a
\* hover-leave after a context menu, and the key of a key event.
Step(act, type, handled, stopped, suppressed) ==
  [act |-> act, type |-> type, handled |-> handled,
   stopped |-> stopped, suppressed |-> suppressed, key |-> NoKey]


-----------------------------------------------------------------------------
(* Pure parts of the component *)

\* static defaultProps: an open prop that is not given is false.
defaultProps(open) == IF open = "undefined" THEN "false" ELSE open

\* getDerivedStateFromProps comparing the prop with state.open instead of
\* with state.prevOpen.
getDerivedStateFromPropsNoPrev(p, st) ==
  IF st.open = p.open
    THEN st
    ELSE [st EXCEPT !.open = p.open, !.prevOpen = p.open]

getDerivedStateFromProps(p, st) ==
  IF st.prevOpen = p.open
    THEN st
    ELSE [st EXCEPT !.open = p.open, !.prevOpen = p.open]

\* getTriggerPosition on the state st, the trigger element being el.  A
\* bounding rectangle is "rect" when it is the one the trigger element has
\* now, and "oldRect" when the page has been laid out again since it was read.
getTriggerPosition(st, el) ==
  IF el # "null" THEN [st EXCEPT !.triggerPosition = "rect"] ELSE st

\* The state table without its click entry.
HoverStateNoClick(type) ==
  CASE type \in {"mouseover", "focus"} -> "over"
    [] type \in {"mouseout", "blur"} -> "out"
    [] OTHER -> "undefined"

\* The state table at the head of handleMouse.
HoverState(type) ==
  CASE type \in {"mouseover", "focus"} -> "over"
    [] type \in {"mouseout", "blur"} -> "out"
    [] type = "click" -> "click"
    [] OTHER -> "undefined"

\* shouldPreventClose without the test of the floating panel.
shouldPreventCloseTriggerOnly(relatedTarget) ==
  /\ relatedTarget # "null"
  /\ triggerEl # "null" /\ hasContains /\ relatedTarget = "trigger"

\* el.contains(node) for the element el that is at where: a TypeError when
\* el has no contains method.
contains(has, where, node) ==
  IF ~has THEN "TypeError" ELSE IF node = where THEN "true" ELSE "false"

\* The shouldPreventClose expression without the test of triggerEl.contains.
shouldPreventCloseValueUntested(relatedTarget) ==
  IF relatedTarget = "null"
    THEN "false"
    ELSE LET inTrigger == IF triggerEl = "null"
                            THEN "false"
                            ELSE contains(hasContains, "trigger", relatedTarget)
         IN IF inTrigger # "false"
              THEN inTrigger
              ELSE IF _tooltipEl = "null"
                     THEN "false"
                     ELSE contains(TRUE, "panel", relatedTarget)

\* What the shouldPreventClose expression of _handleHover evaluates to:
\* "true", "false" (any falsy value), or "TypeError" when it throws.
shouldPreventCloseValue(relatedTarget) ==
  IF relatedTarget = "null"
    THEN "false"
    ELSE LET inTrigger == IF triggerEl = "null"
                            THEN "false"
                            ELSE IF ~hasContains
                                   THEN "false"
                                   ELSE contains(hasContains, "trigger", relatedTarget)
         IN IF inTrigger # "false"
              THEN inTrigger
              ELSE IF _tooltipEl = "null"
                     THEN "false"
                     ELSE contains(TRUE, "panel", relatedTarget)

\* shouldPreventClose of _handleHover.
shouldPreventClose(relatedTarget) == shouldPreventCloseValue(relatedTarget) = "true"

\* Whether _handleHover(hstate, relatedTarget) throws.
HoverThrows(hstate, relatedTarget) ==
  hstate # "over" /\ shouldPreventCloseValue(relatedTarget) = "TypeError"

\* shouldPreventClose of handleClickOutside without the contains() test.
shouldPreventCloseOutsideAny(target) ==
  target # "null" /\ _tooltipEl # "null"

\* shouldPreventClose of handleClickOutside.
shouldPreventCloseOutside(target) ==
  target # "null" /\ _tooltipEl # "null" /\ target = "panel"

\* _handleHover whose 'over' branch refreshes the position and leaves open.
_handleHoverNoOpen(hstate, relatedTarget, st) ==
  IF hstate = "over"
    THEN getTriggerPosition(st, triggerEl)
    ELSE IF ~shouldPreventClose(relatedTarget)
           THEN [st EXCEPT !.open = "false"]
           ELSE st

\* _handleHover(hstate, relatedTarget) on the state st: the state it asks for.
_handleHover(hstate, relatedTarget, st) ==
  IF hstate = "over"
    THEN [getTriggerPosition(st, triggerEl) EXCEPT !.open = "true"]
    ELSE IF ~shouldPreventClose(relatedTarget)
           THEN [st EXCEPT !.open = "false"]
           ELSE st

\* Whether _handleHover(hstate, relatedTarget) calls setState at all.
HoverSetsState(hstate, relatedTarget) ==
  hstate = "over" \/ (~HoverThrows(hstate, relatedTarget) /\ ~shouldPreventClose(relatedTarget))

\* The comparison of handleKeyPress: key = evt.key || evt.which.
IsToggleKey(evt) ==
  IF evt.key # "" THEN evt.key \in {"Enter", " "} ELSE evt.which \in {13, 32}

\* render() reading open from this.props instead of this.state.
renderFromProps(st) == [panel |-> Truthy(props.open), ariaOwns |-> Truthy(props.open)]

\* What render() returns for the state st.
render(st) == [panel |-> Truthy(st.open), ariaOwns |-> Truthy(st.open)]

\* A debounce that keeps the arguments of the first call of a burst.
debounceArgsFirst(held, args) ==
  IF held.state = "none" THEN args ELSE held

\* The arguments the debounced function holds after a call with args.
debounceArgs(held, args) == args

\* The names matchesFuncName is chosen from, in the order of the source.
MatchNames == <<"matches", "webkitMatchesSelector", "msMatchesSelector">>

\* matchesFuncName, methods being the method names Element.prototype has:
\* the first of MatchNames that is a method, "undefined" when none is.
matchesFuncName(methods) ==
  LET found == SelectSeq(MatchNames, LAMBDA name : name \in methods)
  IN IF found = <<>> THEN "undefined" ELSE Head(found)

\* matches(elem, '[data-floating-menu-container]') with matchesFuncName = name:
\* elem[name] is a function exactly when Element.prototype has that method.
matches(elem, name, methods) ==
  name \in methods /\ elem.container

\* The elements from the trigger element up to the document's root element.
PathNames == <<"triggerEl", "parent", "root">>

RECURSIVE closestFrom(_, _, _, _)
\* The loop of closest: from path[i] upwards, the name of the first element
\* that matches, "null" when none does.
closestFrom(i, path, name, methods) ==
  IF i > Len(path)
    THEN "null"
    ELSE IF matches(path[i], name, methods)
           THEN PathNames[i]
           ELSE closestFrom(i + 1, path, name, methods)

closest(path, name, methods) == closestFrom(1, path, name, methods)

\* _getTarget: the element the floating menu is placed in.
_getTarget(el, d) ==
  LET c == IF el = "null"
             THEN "null"
             ELSE closest(d.path, matchesFuncName(d.methods), d.methods)
  IN IF c = "null" THEN "document.body" ELSE c

\* The values of the direction prop.
Directions == {"left", "top", "right", "bottom"}

\* CSS values, as the sequences of their characters.
Auto == <<"a", "u", "t", "o">>
Medium == <<"m", "e", "d", "i", "u", "m">>
Px0 == <<"0", "p", "x">>
Px8 == <<"8", "p", "x">>
Px12 == <<"1", "2", "p", "x">>
PxMinus6 == <<"-", "6", "p", "x">>
PxFraction == <<"1", ".", "5", "p", "x">>
PxRange == <<"1", "-", "2", "p", "x">>
PxHyphen == <<"-", "p", "x">>
Em2 == <<"2", "e", "m">>

DigitChars == <<"0", "1", "2", "3", "4", "5", "6", "7", "8", "9">>

IsDigit(c) == \E i \in 1 .. 10 : DigitChars[i] = c

DigitValue(c) == (CHOOSE i \in 1 .. 10 : DigitChars[i] = c) - 1

RECURSIVE Decimal(_)
\* The number a non-empty sequence of digits denotes.
Decimal(digits) ==
  IF Len(digits) = 1
    THEN DigitValue(digits[1])
    ELSE 10 * Decimal(SubSeq(digits, 1, Len(digits) - 1)) + DigitValue(digits[Len(digits)])

\* Not a number.
NaN == [nan |-> TRUE, n |-> 0]

\* Number(str) for a string of digits and hyphens: digits with at most one
\* leading hyphen are a number, anything else is NaN.
Number(str) ==
  LET digits == IF str # <<>> /\ Head(str) = "-" THEN Tail(str) ELSE str
  IN IF digits # <<>> /\ \A i \in 1 .. Len(digits) : IsDigit(digits[i])
       THEN [nan |-> FALSE,
             n |-> IF Head(str) = "-" THEN 0 - Decimal(digits) ELSE Decimal(digits)]
       ELSE NaN

\* Number((/^([\d-]+)px$/.exec(value) || [])[1]): the regular expression
\* captures one or more digits and hyphens before a final "px"; without a
\* match the capture is undefined and Number(undefined) is NaN.
ParsePx(value) ==
  LET len == Len(value)
      found == /\ len >= 3
               /\ value[len - 1] = "p"
               /\ value[len] = "x"
               /\ \A i \in 1 .. len - 2 : IsDigit(value[i]) \/ value[i] = "-"
  IN IF found THEN Number(SubSeq(value, 1, len - 2)) ELSE NaN

\* The table read from the side the direction names itself.
arrowPositionPropSame(menuDirection) == menuDirection

\* arrowPositionProp of getMenuOffset.
arrowPositionProp(menuDirection) ==
  CASE menuDirection = "left" -> "right"
    [] menuDirection = "top" -> "bottom"
    [] menuDirection = "right" -> "left"
    [] menuDirection = "bottom" -> "top"

\* menuPositionAdjustmentProp of getMenuOffset.
menuPositionAdjustmentProp(menuDirection) ==
  CASE menuDirection = "left" -> "left"
    [] menuDirection = "top" -> "top"
    [] menuDirection = "right" -> "left"
    [] menuDirection = "bottom" -> "top"

\* A length Math.sqrt(radicand) - minus; the square root is kept unevaluated.
Length(radicand, minus) == [radicand |-> radicand, minus |-> minus]

\* The literal 0 of the offset's left and top.
Zero == Length(0, 0)

\* getMenuOffset returned nothing.
UndefinedOffset == [returned |-> FALSE, left |-> Zero, top |-> Zero]

\* getMenuOffset(menuBody, menuDirection), arrowStyle being the computed style
\* of menuBody's :before pseudo-element.
getMenuOffset(arrowStyle, menuDirection) ==
  LET side == arrowPositionProp(menuDirection)
      adjusted == menuPositionAdjustmentProp(menuDirection)
      read == ParsePx(arrowStyle[side])
      borderBottomWidth == ParsePx(arrowStyle["border-bottom-width"])
      arrowPosition == IF read.nan \/ read.n = 0 THEN [nan |-> FALSE, n |-> 0 - 6] ELSE read
      length == Length(borderBottomWidth.n * borderBottomWidth.n * 2, arrowPosition.n)
  IN IF ~arrowPosition.nan /\ ~borderBottomWidth.nan
       THEN [returned |-> TRUE,
             left |-> IF adjusted = "left" THEN length ELSE Zero,
             top |-> IF adjusted = "top" THEN length ELSE Zero]
       ELSE UndefinedOffset

\* No identifier: the prop was not given, the field is not yet set.
NoId == [kind |-> "undefined", n |-> 0]

\* The identifier render destructures for one of triggerId and tooltipId: the
\* prop when it is given, otherwise the default this.<field> || prefix +
\* Math.random()..., which sets the field.  Math.random returns a value it did
\* not return before: the drawn + 1st.
idForFresh(prop, field, drawn) ==
  IF prop # NoId
    THEN [id |-> prop, field |-> field, drawn |-> drawn]
    ELSE LET fresh == [kind |-> "random", n |-> Min(drawn + 1, MaxDrawn)]
         IN [id |-> fresh, field |-> fresh, drawn |-> Min(drawn + 1, MaxDrawn)]

idFor(prop, field, drawn) ==
  IF prop # NoId
    THEN [id |-> prop, field |-> field, drawn |-> drawn]
    ELSE IF field # NoId
           THEN [id |-> field, field |-> field, drawn |-> drawn]
           ELSE LET fresh == [kind |-> "random", n |-> Min(drawn + 1, MaxDrawn)]
                IN [id |-> fresh, field |-> fresh, drawn |-> Min(drawn + 1, MaxDrawn)]

\* A node inside the floating panel is detached when the panel is unmounted.
Detach(call, gone) ==
  IF gone /\ call.relatedTarget = "panel"
    THEN [call EXCEPT !.relatedTarget = "detached"]
    ELSE call


-----------------------------------------------------------------------------
(* React: a state update and the render that follows it *)

\* The render of the mounted component with props p and state st.  React runs
\* getDerivedStateFromProps before every render, and the ref callbacks after
\* it; calls and lc are the debounced arguments, whose nodes the render may
\* detach.
Rerender(p, st, calls, lc) ==
  LET s2 == getDerivedStateFromProps(p, st)
      out == render(s2)
      gone == rendered.panel /\ ~out.panel
      trig == idFor(p.triggerId, ids.triggerId, ids.drawn)
      tip == idFor(p.tooltipId, ids.tooltipId, trig.drawn)
  IN /\ state' = s2
     /\ ids' = [triggerId |-> trig.field, tooltipId |-> tip.field, drawn |-> tip.drawn]
     /\ rendered' = [panel |-> out.panel,
                     ariaOwns |-> out.ariaOwns,
                     target |-> IF out.panel THEN _getTarget(triggerEl, dom) ELSE "none",
                     triggerId |-> trig.id,
                     tooltipId |-> tip.id]
     /\ _tooltipEl' = IF out.panel THEN "el" ELSE "null"
     /\ pending' = Detach(calls, gone)
     /\ lastCall' = Detach(lc, gone)

\* this.setState leading to the state st.  On an unmounted component React
\* drops the update.
setState(st, calls, lc) ==
  IF phase = "mounted"
    THEN /\ Rerender(props, st, calls, lc)
         /\ UNCHANGED lateSetState
    ELSE /\ lateSetState' = TRUE
         /\ pending' = calls
         /\ lastCall' = lc
         /\ UNCHANGED <<state, rendered, ids, _tooltipEl>>

\* A handler that returns without calling setState.
NoUpdate == UNCHANGED <<state, rendered, ids, _tooltipEl, lateSetState>>

-----------------------------------------------------------------------------
(* The component *)

InitState == [open |-> "undefined", prevOpen |-> "undefined", triggerPosition |-> "undefined"]

\* Nothing of the component is in the page.
NotRendered == [panel |-> FALSE, ariaOwns |-> FALSE, target |-> "none",
                triggerId |-> NoId, tooltipId |-> NoId]

\* The pages: one with no matches method at all and one with only the
\* prefixed method of IE11, the trigger inside a floating-menu container; one
\* of a current browser, the trigger in no such container.
Doms ==
  {[methods |-> {},
    path |-> <<[container |-> FALSE], [container |-> TRUE], [container |-> FALSE]>>],
   [methods |-> {"msMatchesSelector"},
    path |-> <<[container |-> FALSE], [container |-> TRUE], [container |-> FALSE]>>],
   [methods |-> {"matches", "webkitMatchesSelector"},
    path |-> <<[container |-> FALSE], [container |-> FALSE], [container |-> FALSE]>>]}

\* A page of a current browser, the trigger inside a floating-menu container.
DefaultDom ==
  [methods |-> {"matches", "webkitMatchesSelector"},
   path |-> <<[container |-> FALSE], [container |-> TRUE], [container |-> FALSE]>>]

\* The values the computed style of the arrow has for a side, and for
\* border-bottom-width.
SideValues == {Auto, Px0, Px12, PxMinus6, PxHyphen}

BorderValues == {Px0, Px8, PxFraction, PxRange, Medium, Em2, <<>>}

\* The computed styles of the arrow: a value for each property read.
ArrowStyles ==
  {[name \in Directions \cup {"border-bottom-width"} |->
      IF name = "border-bottom-width" THEN border ELSE sides[name]] :
     sides \in [Directions -> SideValues], border \in BorderValues}

\* The calls of getMenuOffset the floating menu can make.
Menus ==
  {[called |-> FALSE, direction |-> d, style |-> st, offset |-> UndefinedOffset] :
     d \in Directions, st \in ArrowStyles}

\* No call of getMenuOffset was made.
NoMenu == [called |-> FALSE, direction |-> "none", style |-> <<>>, offset |-> UndefinedOffset]

\* The state after construction, for an open prop of givens, a clickToOpen
\* of modes, a showIcon of icons, in a page of doms, menus being the calls of
\* getMenuOffset to come.
InitFor(givens, modes, icons, doms, menus) ==
  /\ \E given \in givens, c \in modes, i \in icons :
       /\ props = [open |-> defaultProps(given), clickToOpen |-> c, showIcon |-> i,
                   triggerId |-> NoId, tooltipId |-> NoId]
       /\ last = Step("constructor", given, FALSE, FALSE, FALSE)
  /\ dom \in doms
  /\ state = InitState
  /\ phase = "constructed"
  /\ triggerEl = "null"
  /\ _tooltipEl = "null"
  /\ _hasContextMenu = FALSE
  /\ pending = NoCall
  /\ sinceLast = 0
  /\ rafPending = FALSE
  /\ rendered = NotRendered
  /\ ids = [triggerId |-> NoId, tooltipId |-> NoId, drawn |-> 0]
  /\ menu \in menus
  /\ immediateClose = FALSE
  \* The no-icon trigger is a <div>, which has contains(); the icon trigger is
  \* an SVG element, which in IE11 has none.
  /\ hasContains \in (IF props.showIcon THEN BOOLEAN ELSE {TRUE})
  /\ lastCall = NoCall
  /\ burst = 0
  /\ lateSetState = FALSE

Init == InitFor(OpenProps, BOOLEAN, BOOLEAN, {DefaultDom}, {NoMenu})

\* The hover-mode component with the icon trigger in any page, the owner
\* giving no open prop at first.  The SVG trigger has contains() in the
\* current browser only.
DomInit ==
  /\ InitFor({"undefined"}, {FALSE}, {TRUE}, Doms, {NoMenu})
  /\ hasContains <=> ("matches" \in dom.methods)

\* The first render, the refs and componentDidMount.
Mount ==
  /\ phase = "constructed"
  /\ phase' = "mounted"
  /\ Rerender(props, state, pending, lastCall)
  /\ triggerEl' = "el"
  /\ rafPending' = TRUE
  /\ last' = Step("Mount", "", FALSE, FALSE, FALSE)
  /\ UNCHANGED immediateClose
  /\ UNCHANGED <<props, _hasContextMenu, sinceLast, hasContains, dom, menu,
                 burst, lateSetState>>

\* The owner renders the component again, with any open prop.
SetProps(given) ==
  /\ phase = "mounted"
  /\ props' = [props EXCEPT !.open = defaultProps(given)]
  /\ Rerender(props', state, pending, lastCall)
  /\ last' = Step("SetProps", given, FALSE, FALSE, FALSE)
  /\ immediateClose' = IF props'.open = props.open
                         THEN immediateClose
                         ELSE props'.open = "false"
  /\ UNCHANGED <<phase, triggerEl, _hasContextMenu, sinceLast, rafPending,
                 hasContains, dom, menu, burst, lateSetState>>

\* The requestAnimationFrame callback of componentDidMount.
AnimationFrame ==
  /\ rafPending
  /\ rafPending' = FALSE
  /\ IF triggerEl # "null"
       THEN setState(getTriggerPosition(state, triggerEl), pending, lastCall)
       ELSE NoUpdate /\ UNCHANGED <<pending, lastCall>>
  /\ last' = Step("AnimationFrame", "", FALSE, FALSE, FALSE)
  /\ UNCHANGED immediateClose
  /\ UNCHANGED <<props, phase, triggerEl, _hasContextMenu, sinceLast, hasContains, dom, menu, burst>>

\* The condition without the context-menu flag.
ShouldDebounceAlways(hstate, hadContextMenu) == hstate # "undefined"

\* The condition under which handleMouse, in hover mode, calls the debounced
\* _handleHover.
ShouldDebounce(hstate, hadContextMenu) ==
  hstate # "undefined" /\ (hstate # "out" \/ ~hadContextMenu)

\* The flag, once set, kept.
ContextMenuFlagKept(type) == _hasContextMenu \/ type = "contextmenu"

\* The value handleMouse gives this._hasContextMenu for an event of the type.
ContextMenuFlag(type) == type = "contextmenu"

\* The test without the clickToOpen prop.
ClickToOpenNever(p) == FALSE

\* The test of handleMouse that selects click mode.
ClickToOpen(p) == p.clickToOpen

\* handleMouse(evt) for the DOM event evt, dispatched by the step act.
handleMouse(evt, act) ==
  LET hstate == HoverState(evt.type)
      hadContextMenu == _hasContextMenu
  IN /\ _hasContextMenu' = ContextMenuFlag(evt.type)
     /\ IF ClickToOpen(props)
          THEN IF hstate = "click"
                 THEN LET shouldOpen == Not(state.open)
                          st == IF Truthy(shouldOpen)
                                  THEN getTriggerPosition(state, triggerEl)
                                  ELSE state
                      IN /\ setState([st EXCEPT !.open = shouldOpen], pending, lastCall)
                         /\ last' = Step(act, evt.type, TRUE, TRUE, FALSE)
                         /\ UNCHANGED <<sinceLast, burst>>
                 ELSE /\ NoUpdate
                      /\ last' = Step(act, evt.type, TRUE, FALSE, FALSE)
                      /\ UNCHANGED <<pending, lastCall, sinceLast, burst>>
          ELSE IF ShouldDebounce(hstate, hadContextMenu)
                 THEN LET args == [state |-> hstate, relatedTarget |-> evt.relatedTarget]
                      IN /\ pending' = debounceArgs(pending, args)
                         /\ sinceLast' = 0
                         /\ lastCall' = args
                         /\ burst' = IF pending = NoCall THEN 1 ELSE Min(burst + 1, MaxBurst)
                         /\ NoUpdate
                         /\ last' = Step(act, evt.type, TRUE, FALSE, FALSE)
                 ELSE /\ NoUpdate
                      /\ last' = Step(act, evt.type, TRUE, FALSE,
                                      hstate = "out" /\ hadContextMenu)
                      /\ UNCHANGED <<pending, lastCall, sinceLast, burst>>

\* mouseover, mouseout, focus or blur on the trigger or on the floating panel.
HoverEvent(el, type, relatedTarget) ==
  /\ phase = "mounted"
  /\ el = "panel" => rendered.panel
  /\ relatedTarget = "panel" => rendered.panel
  /\ HoverState(type) = "over" => relatedTarget \in {"null", "elsewhere"}
  /\ handleMouse([type |-> type, el |-> el, relatedTarget |-> relatedTarget], "HoverEvent")
  /\ immediateClose' = FALSE
  /\ UNCHANGED <<props, phase, triggerEl, rafPending, hasContains, dom, menu>>

\* A click on the trigger.  Only the icon trigger has an onClick handler.
Click ==
  /\ phase = "mounted"
  /\ IF props.showIcon
       THEN handleMouse([type |-> "click", el |-> "trigger", relatedTarget |-> "null"], "Click")
       ELSE /\ NoUpdate
            /\ last' = Step("Click", "click", FALSE, FALSE, FALSE)
            /\ UNCHANGED <<_hasContextMenu, pending, lastCall, sinceLast, burst>>
  /\ immediateClose' = FALSE
  /\ UNCHANGED <<props, phase, triggerEl, rafPending, hasContains, dom, menu>>

\* contextmenu on the floating panel.
ContextMenu ==
  /\ phase = "mounted"
  /\ rendered.panel
  /\ handleMouse([type |-> "contextmenu", el |-> "panel", relatedTarget |-> "null"], "ContextMenu")
  /\ immediateClose' = FALSE
  /\ UNCHANGED <<props, phase, triggerEl, rafPending, hasContains, dom, menu>>

handleKeyPress(evt) ==
  IF IsToggleKey(evt)
    THEN /\ setState([state EXCEPT !.open = Not(state.open)], pending, lastCall)
         /\ last' = [Step("KeyDown", "keydown", TRUE, TRUE, FALSE)
                       EXCEPT !.key = evt]
    ELSE /\ NoUpdate
         /\ last' = [Step("KeyDown", "keydown", TRUE, FALSE, FALSE)
                       EXCEPT !.key = evt]
         /\ UNCHANGED <<pending, lastCall>>

\* A key-down on the trigger.  Only the icon trigger has an onKeyDown handler.
KeyDown(evt) ==
  /\ phase = "mounted"
  /\ IF props.showIcon
       THEN handleKeyPress(evt)
       ELSE /\ NoUpdate
            /\ last' = [Step("KeyDown", "keydown", FALSE, FALSE, FALSE)
                          EXCEPT !.key = evt]
            /\ UNCHANGED <<pending, lastCall>>
  /\ immediateClose' = (props.showIcon /\ IsToggleKey(evt) /\ Not(state.open) = "false")
  /\ UNCHANGED <<props, phase, triggerEl, _hasContextMenu, sinceLast, rafPending,
                 hasContains, dom, menu, burst>>

\* ClickListener reports a click outside the trigger; target is where.
handleClickOutside(target) ==
  /\ phase = "mounted"
  /\ target = "panel" => rendered.panel
  /\ IF ~shouldPreventCloseOutside(target)
       THEN setState([state EXCEPT !.open = "false"], pending, lastCall)
       ELSE NoUpdate /\ UNCHANGED <<pending, lastCall>>
  /\ last' = Step("ClickOutside", target, TRUE, FALSE, FALSE)
  /\ immediateClose' = ~shouldPreventCloseOutside(target)
  /\ UNCHANGED <<props, phase, triggerEl, _hasContextMenu, sinceLast, rafPending,
                 hasContains, dom, menu, burst>>

\* Time passes while the debounce timer runs.
Tick ==
  /\ pending # NoCall
  /\ sinceLast < Wait
  /\ sinceLast' = Min(sinceLast + TickMs, Wait)
  /\ last' = Step("Tick", "", FALSE, FALSE, FALSE)
  /\ UNCHANGED immediateClose
  /\ UNCHANGED <<props, state, phase, triggerEl, _tooltipEl, _hasContextMenu,
                 pending, rafPending, rendered, ids, hasContains, dom, menu, lastCall,
                 burst, lateSetState>>

\* Whether the debounce timer has expired.
TimerDue == pending # NoCall /\ sinceLast >= Wait

\* The debounce timer expires: _handleHover runs with the arguments held.
TimerFire ==
  /\ TimerDue
  /\ IF HoverSetsState(pending.state, pending.relatedTarget)
       THEN setState(_handleHover(pending.state, pending.relatedTarget, state),
                     NoCall, NoCall)
       ELSE /\ NoUpdate
            /\ pending' = NoCall
            /\ lastCall' = NoCall
  /\ sinceLast' = 0
  /\ UNCHANGED burst
  /\ last' = Step("TimerFire",
                   IF HoverThrows(pending.state, pending.relatedTarget)
                     THEN "TypeError" ELSE "",
                   TRUE, FALSE, FALSE)
  /\ UNCHANGED immediateClose
  /\ UNCHANGED <<props, phase, triggerEl, _hasContextMenu, rafPending, hasContains, dom, menu>>

\* The page scrolls or is laid out again: the trigger's rectangle changes.
Scroll ==
  /\ phase = "mounted"
  /\ state' = [state EXCEPT !.triggerPosition =
                 IF @ = "rect" THEN "oldRect" ELSE @]
  /\ last' = Step("Scroll", "", FALSE, FALSE, FALSE)
  /\ UNCHANGED immediateClose
  /\ UNCHANGED <<props, phase, triggerEl, _tooltipEl, _hasContextMenu,
                 pending, sinceLast, rafPending, rendered, ids, hasContains, dom, menu, lastCall,
                 burst, lateSetState>>

\* React unmounts the component: the refs are reset and the markup removed.
Unmount ==
  /\ phase = "mounted"
  /\ phase' = "unmounted"
  /\ triggerEl' = "null"
  /\ _tooltipEl' = "null"
  /\ rendered' = NotRendered
  /\ pending' = Detach(pending, rendered.panel)
  /\ lastCall' = Detach(lastCall, rendered.panel)
  /\ last' = Step("Unmount", "", FALSE, FALSE, FALSE)
  /\ UNCHANGED <<props, state, ids, _hasContextMenu, sinceLast, rafPending,
                 hasContains, dom, menu, burst, lateSetState, immediateClose>>

Next ==
  \/ Mount
  \/ \E given \in OpenProps : SetProps(given)
  \/ AnimationFrame
  \/ \E el \in {"trigger", "panel"}, type \in HoverTypes, rt \in Nodes :
       HoverEvent(el, type, rt)
  \/ Click
  \/ ContextMenu
  \/ \E evt \in KeyEvents : KeyDown(evt)
  \/ \E target \in {"null", "panel", "elsewhere"} : handleClickOutside(target)
  \/ Tick
  \/ TimerFire
  \/ Scroll
  \/ Unmount

Spec == Init /\ [][Next]_vars

\* The component in any of the pages Doms.
DomSpec == DomInit /\ [][Next]_vars

\* The floating menu is about to ask for its offset, for any direction and
\* any computed style of the arrow.
OffsetInit ==
  /\ InitFor({"undefined"}, {FALSE}, {TRUE}, {DefaultDom}, Menus)
  /\ hasContains

\* The floating menu calls the menuOffset prop, getMenuOffset by default.
ComputeOffset ==
  /\ ~menu.called
  /\ menu' = [menu EXCEPT !.called = TRUE,
                          !.offset = getMenuOffset(menu.style, menu.direction)]
  /\ UNCHANGED <<props, state, phase, triggerEl, _tooltipEl, _hasContextMenu,
                 pending, sinceLast, rafPending, rendered, hasContains, dom, ids,
                 lastCall, burst, lateSetState, immediateClose, last>>

OffsetNext == ComputeOffset

\* getMenuOffset applied to every direction and arrow style.
OffsetSpec == OffsetInit /\ [][OffsetNext]_vars

-----------------------------------------------------------------------------
(* Properties *)

TypeOK ==
  /\ props.open \in JSBool
  /\ state.open \in JSBool \cup {"undefined"}
  /\ phase \in {"constructed", "mounted", "unmounted"}
  /\ sinceLast \in 0 .. Wait
  /\ burst \in 0 .. MaxBurst

\* C1: while the component exists, the floating panel is rendered if and only
\* if state.open is true, and aria-owns is on the trigger exactly when the
\* panel is rendered.
PanelRenderedIffOpen ==
  phase # "unmounted" =>
    /\ rendered.panel <=> (state.open = "true")
    /\ rendered.ariaOwns <=> rendered.panel

\* A hover has opened the panel of a component whose open prop says closed.
PanelRenderedAfterHover ==
  /\ phase = "mounted"
  /\ last.act = "TimerFire"
  /\ props.open = "false"
  /\ rendered.panel /\ rendered.ariaOwns

\* C2: in hover mode a mouseover or focus leaves open as it is and starts the
\* debounce window; when the window has run out with no further debounced call,
\* and not before, the mounted component's open becomes true.
HoverEnterOpensAfterWait ==
  /\ [][(last'.act = "HoverEvent" /\ ~props.clickToOpen
           /\ last'.type \in {"mouseover", "focus"})
          => (/\ state'.open = state.open
              /\ pending'.state = "over"
              /\ sinceLast' = 0)]_vars
  /\ [][(pending.state = "over" /\ pending' # pending /\ last'.act # "HoverEvent"
           /\ last'.act # "Click")
          => last'.act = "TimerFire"]_vars
  /\ [][(last'.act = "TimerFire" /\ phase = "mounted" /\ pending.state = "over")
          => (sinceLast >= Wait /\ state'.open = "true")]_vars

\* The debounce timer of a hover-enter has just opened a closed tooltip.
HoverEnterOpened ==
  /\ phase = "mounted"
  /\ ~props.clickToOpen
  /\ last.act = "TimerFire"
  /\ burst >= 1
  /\ props.open = "false"
  /\ state.open = "true"
  /\ state.triggerPosition = "rect"

\* C3 as stated: a hover-leave processed after the debounce window sets open
\* to false, unless its relatedTarget is inside the trigger element or inside
\* the floating panel, and then open is unchanged.
HoverLeaveClosesUnlessInside ==
  [][(last'.act = "TimerFire" /\ phase = "mounted" /\ pending.state = "out")
       => IF pending.relatedTarget \in {"trigger", "panel"}
            THEN state'.open = state.open
            ELSE state'.open = "false"]_vars

\* C3 as amended: a hover-leave processed after the debounce window sets open
\* to false, unless its relatedTarget is inside the floating panel, or inside
\* the trigger element and that element has a contains() method; then open is
\* unchanged.
HoverLeaveClosesUnlessContained ==
  [][(last'.act = "TimerFire" /\ phase = "mounted" /\ pending.state = "out")
       => (/\ sinceLast >= Wait
           /\ IF \/ pending.relatedTarget = "panel"
                 \/ (pending.relatedTarget = "trigger" /\ hasContains)
                THEN state'.open = state.open
                ELSE state'.open = "false")]_vars

\* A hover-leave into the trigger or the floating panel was processed and the tooltip is
\* still open.
HoverLeaveInsideKeptOpen ==
  /\ phase = "mounted"
  /\ ~props.clickToOpen
  /\ last.act = "TimerFire"
  /\ props.open = "false"
  /\ state.open = "true"
  /\ state.triggerPosition = "undefined"

\* C4: in click mode every click on the trigger toggles open at once and
\* stops the propagation of the click.
ClickTogglesAndStops ==
  [][(last'.act = "Click" /\ props.clickToOpen)
       => (state'.open = Not(state.open) /\ last'.stopped)]_vars

\* C5: a key-down of Enter or Space on the trigger toggles open, in hover mode
\* and in click mode, and a key-down of another key leaves open unchanged.
KeyDownToggles ==
  [][last'.act = "KeyDown"
       => IF \/ last'.key.key \in {"Enter", " "}
             \/ (last'.key.key = "" /\ last'.key.which \in {13, 32})
            THEN state'.open = Not(state.open)
            ELSE state'.open = state.open]_vars

\* C6: a click-outside notification whose target is not inside the floating
\* panel sets open to false, whatever the state and the mode; one whose target
\* is inside the floating panel leaves open unchanged.
ClickOutsideCloses ==
  [][last'.act = "ClickOutside"
       => IF last'.type = "panel"
            THEN state'.open = state.open
            ELSE state'.open = "false"]_vars

\* A click outside has closed a tooltip that its open prop had opened.
ClickOutsideClosed ==
  /\ phase = "mounted"
  /\ last.act = "ClickOutside"
  /\ last.type = "elsewhere"
  /\ props.open = "true"
  /\ state.open = "false"
  /\ ~rendered.panel

\* C7: a mouseout or blur that is the first event handleMouse sees after a
\* contextmenu event closes nothing: open is unchanged and no debounced call
\* is made or re-timed.
ContextMenuSuppressesClose ==
  [][(last'.act = "HoverEvent" /\ last'.type \in {"mouseout", "blur"}
        /\ _hasContextMenu)
       => (/\ state'.open = state.open
           /\ pending' = pending
           /\ sinceLast' = sinceLast
           /\ ~_hasContextMenu')]_vars

\* In hover mode a hover-leave was dropped after a context menu, the tooltip
\* is open and no debounced call is pending.
CloseSuppressedAfterContextMenu ==
  /\ phase = "mounted"
  /\ ~props.clickToOpen
  /\ last.act = "HoverEvent"
  /\ last.suppressed
  /\ state.open = "true"
  /\ pending = NoCall

\* What open is after _handleHover ran with the arguments call.
OpenAfterHover(call) ==
  IF call.state = "over"
    THEN "true"
    ELSE IF \/ call.relatedTarget = "panel"
            \/ (call.relatedTarget = "trigger" /\ hasContains)
           THEN state.open
           ELSE "false"

\* C8: in hover mode the hover events of a burst only restart the 200ms timer
\* and replace the arguments held; open is changed by none of them, and once,
\* when the timer runs out, by _handleHover with the arguments of the latest
\* event of the burst.
HoverBurstCoalesced ==
  /\ [][(last'.act = "HoverEvent" /\ ~props.clickToOpen /\ ~_hasContextMenu)
          => (/\ state'.open = state.open
              /\ pending'.state = HoverState(last'.type)
              /\ pending' = lastCall'
              /\ sinceLast' = 0)]_vars
  /\ [][last'.act = "TimerFire"
          => (/\ sinceLast >= Wait
              /\ pending # NoCall
              /\ pending = lastCall
              /\ pending' = NoCall
              /\ phase = "mounted" => state'.open = OpenAfterHover(lastCall))]_vars
  /\ [][(~props.clickToOpen /\ state'.open # state.open)
          => last'.act \in {"TimerFire", "KeyDown", "ClickOutside", "SetProps", "Mount"}]_vars

\* A burst of two or more debounced calls has settled: the last one, a
\* hover-leave, closed the tooltip that the open prop had opened.
BurstSettled ==
  /\ phase = "mounted"
  /\ ~props.clickToOpen
  /\ last.act = "TimerFire"
  /\ burst >= 2
  /\ props.open = "true"
  /\ state.open = "false"

\* C9: the first render sets state.open to the open prop, false when none is
\* given; a later render by the owner sets state.open to the open prop when it
\* differs from the prop of the render before, and leaves state.open alone
\* when it does not; the render that follows a user event changes neither the
\* props nor what the event made of state.open.
OpenFollowsPropChanges ==
  /\ [][last'.act = "Mount"
          => state'.open = (IF last.type = "undefined" THEN "false" ELSE last.type)]_vars
  /\ [][last'.act = "SetProps"
          => LET new == IF last'.type = "undefined" THEN "false" ELSE last'.type
             IN /\ props'.open = new
                /\ IF new # props.open
                     THEN state'.open = new
                     ELSE state'.open = state.open]_vars
  /\ [][(phase = "mounted" /\ last'.act # "SetProps")
          => (/\ props' = props
              /\ state'.prevOpen = state.prevOpen
              /\ (last'.act = "KeyDown" /\ last'.stopped)
                   => state'.open = Not(state.open))]_vars

\* The owner rendered again with the open prop it gave before, and state.open
\* is still what a user event made it.
RerenderKeptUserState ==
  /\ phase = "mounted"
  /\ last.act = "SetProps"
  /\ state.open # props.open

\* C10: every change of open from false to true on the mounted component comes
\* with a getTriggerPosition call that refreshes state.triggerPosition.
OpenRefreshesTriggerPosition ==
  [][(phase = "mounted" /\ state.open # "true" /\ state'.open = "true")
       => state'.triggerPosition = "rect"]_vars

\* C11: a missing DOM capability raises no error.  No handler throws; the
\* animation-frame callback that finds no trigger element leaves the state as
\* it is and issues no update; a hover-leave towards a node inside a trigger
\* element that has no contains() closes the tooltip; and where
\* Element.prototype has none of the matches methods the floating panel is
\* placed in document.body.
MissingCapabilityDegrades ==
  /\ [](last.type # "TypeError")
  /\ [][(last'.act = "AnimationFrame" /\ triggerEl = "null")
          => (state' = state /\ lateSetState' = lateSetState)]_vars
  /\ [][(last'.act = "TimerFire" /\ phase = "mounted" /\ pending.state = "out"
           /\ pending.relatedTarget = "trigger" /\ ~hasContains)
          => state'.open = "false"]_vars
  /\ []((rendered.panel /\ matchesFuncName(dom.methods) = "undefined")
          => rendered.target = "document.body")

\* The trigger has no contains() and stands in a floating-menu container of a
\* page without any matches method: the panel is open and placed in
\* document.body.
DegradedPageOpened ==
  /\ phase = "mounted"
  /\ ~hasContains
  /\ dom.methods = {}
  /\ dom.path[2].container
  /\ rendered.panel
  /\ rendered.target = "document.body"
  /\ last.act = "TimerFire"

\* C12: with no triggerId and no tooltipId prop, every render of the mounted
\* component puts the identifiers of the first render on the trigger and on
\* the panel: each render uses the identifier held in this.triggerId and
\* this.tooltipId, Math.random is called once for each, and no step changes
\* them.
IdentifiersStable ==
  /\ [](phase = "mounted" =>
          /\ rendered.triggerId = ids.triggerId
          /\ rendered.tooltipId = ids.tooltipId
          /\ rendered.triggerId.kind = "random"
          /\ rendered.tooltipId.kind = "random"
          /\ ids.drawn = 2)
  /\ [][(phase = "mounted" /\ phase' = "mounted")
          => (/\ rendered'.triggerId = rendered.triggerId
              /\ rendered'.tooltipId = rendered.tooltipId)]_vars
  /\ [][phase # "constructed" => ids' = ids]_vars

\* After a hover opened the panel, several renders after the first, trigger
\* and panel carry the two identifiers drawn at the first render.
IdentifiersKeptAfterOpen ==
  /\ phase = "mounted"
  /\ last.act = "TimerFire"
  /\ rendered.panel
  /\ props.open = "false"
  /\ rendered.triggerId = [kind |-> "random", n |-> 1]
  /\ rendered.tooltipId = [kind |-> "random", n |-> 2]

\* C13: in click mode no debounced call is ever pending; a mouseover, mouseout,
\* focus, blur or contextmenu event leaves open as it is and schedules
\* nothing; and the mounted component's open changes only in a trigger click,
\* an Enter or Space key-down, a click-outside notification or a render with
\* new props.
ClickModeIgnoresHover ==
  /\ [](props.clickToOpen => (pending = NoCall /\ sinceLast = 0))
  /\ [][(props.clickToOpen /\ last'.act \in {"HoverEvent", "ContextMenu"})
          => (state'.open = state.open /\ pending' = NoCall /\ sinceLast' = 0)]_vars
  /\ [][(props.clickToOpen /\ phase = "mounted" /\ state'.open # state.open)
          => \/ (last'.act = "Click" /\ last'.handled)
             \/ (last'.act = "KeyDown" /\ last'.stopped /\ IsToggleKey(last'.key))
             \/ last'.act = "ClickOutside"
             \/ last'.act = "SetProps"]_vars

\* A click opened the click-mode tooltip and a mouseout then left it open.
ClickModeMouseOutIgnored ==
  /\ phase = "mounted"
  /\ props.clickToOpen
  /\ props.open = "false"
  /\ last.act = "HoverEvent"
  /\ last.type = "mouseout"
  /\ state.open = "true"

\* C14: every event handleMouse receives sets _hasContextMenu to whether it is
\* a contextmenu event, and no other step changes the flag.  In hover mode a
\* hover-enter is passed to the debounced handler also when the flag is set, a
\* hover-leave is passed to it whenever the flag is not set, and such a
\* hover-leave towards a node outside trigger and panel closes the mounted
\* tooltip when the timer expires.  The contextmenu event changes neither open
\* nor the debounced call.
ContextMenuFlagCoversOneEvent ==
  /\ [][(last'.act \in {"HoverEvent", "Click", "ContextMenu"} /\ last'.handled)
          => _hasContextMenu' = (last'.type = "contextmenu")]_vars
  /\ [][~(last'.act \in {"HoverEvent", "Click", "ContextMenu"} /\ last'.handled)
          => _hasContextMenu' = _hasContextMenu]_vars
  /\ [][(last'.act = "HoverEvent" /\ ~props.clickToOpen /\ _hasContextMenu
           /\ last'.type \in {"mouseover", "focus"})
          => (pending'.state = "over" /\ sinceLast' = 0 /\ ~last'.suppressed)]_vars
  /\ [][(last'.act = "HoverEvent" /\ ~props.clickToOpen /\ ~_hasContextMenu
           /\ last'.type \in {"mouseout", "blur"})
          => (pending'.state = "out" /\ sinceLast' = 0 /\ ~last'.suppressed)]_vars
  /\ [][(last'.act = "TimerFire" /\ phase = "mounted" /\ pending.state = "out"
           /\ pending.relatedTarget \notin {"trigger", "panel"})
          => state'.open = "false"]_vars
  /\ [][last'.act = "ContextMenu"
          => (/\ state'.open = state.open
              /\ pending' = pending
              /\ sinceLast' = sinceLast)]_vars

\* A contextmenu came while a hover-leave was waiting for its timer: the flag
\* is set, the tooltip is still open and the hover-leave still waits.
ContextMenuDuringLeave ==
  /\ phase = "mounted"
  /\ last.act = "ContextMenu"
  /\ _hasContextMenu
  /\ state.open = "true"
  /\ pending.state = "out"
  /\ sinceLast > 0

\* C15: in hover mode a click on the icon trigger leaves open as it is and
\* passes the state 'click', with no relatedTarget, to the debounced handler,
\* in place of whatever call was pending; the timer of such a call, once the
\* window has run out, sets the mounted component's open to false; so while a
\* click is the pending call of a closed tooltip, the passing of time and the
\* timer leave it closed.
HoverModeClickCloses ==
  /\ [][(last'.act = "Click" /\ ~props.clickToOpen /\ props.showIcon)
          => (/\ pending' = [state |-> "click", relatedTarget |-> "null"]
              /\ sinceLast' = 0
              /\ state'.open = state.open)]_vars
  /\ [][(last'.act = "TimerFire" /\ phase = "mounted" /\ pending.state = "click")
          => (sinceLast >= Wait /\ state'.open = "false")]_vars
  /\ [][(pending.state = "click" /\ phase = "mounted" /\ state.open = "false"
           /\ last'.act \in {"Tick", "TimerFire", "AnimationFrame", "Scroll"})
          => state'.open = "false"]_vars

\* A click on the icon trigger replaced a pending debounced call of a closed
\* hover-mode tooltip, and the debounce window has run out with the tooltip
\* still closed.
ClickReplacedPendingHover ==
  /\ phase = "mounted"
  /\ ~props.clickToOpen
  /\ props.showIcon
  /\ pending = [state |-> "click", relatedTarget |-> "null"]
  /\ burst >= 2
  /\ sinceLast >= Wait
  /\ state.open = "false"

\* C16: after a click-outside notification, an Enter or Space key-down or a
\* change of the open prop has set open to false, the mounted component's open
\* is false for as long as no further user event and no further prop change
\* has occurred.
ImmediateCloseHolds ==
  (phase = "mounted" /\ immediateClose) => state.open = "false"

\* C17: no handler calls setState on the component after it was unmounted.
NoSetStateAfterUnmount == ~lateSetState

\* The number a CSS value of the checked styles denotes when it is an integer
\* number of pixels: 0px, 8px, 12px, -6px are; auto, medium, 1.5px, 1-2px,
\* -px, 2em and the empty value are not.
IntegerPixels(value) ==
  CASE value = Px0 -> [nan |-> FALSE, n |-> 0]
    [] value = Px8 -> [nan |-> FALSE, n |-> 8]
    [] value = Px12 -> [nan |-> FALSE, n |-> 12]
    [] value = PxMinus6 -> [nan |-> FALSE, n |-> 0 - 6]
    [] OTHER -> NaN

\* C18: getMenuOffset returns an offset exactly when border-bottom-width is an
\* integer number of pixels b.  The offset then has top = 0 and left =
\* sqrt(2 b^2) - a for the directions left and right, left = 0 and top =
\* sqrt(2 b^2) - a for top and bottom, where a is the arrow's right, bottom,
\* left, top for left, top, right, bottom, or -6 when that value is no integer
\* number of pixels or is zero; the adjusted axis is never the literal 0.
OffsetAdjustsOneAxis ==
  menu.called =>
    LET d == menu.direction
        opposite == CASE d = "left" -> "right"
                      [] d = "top" -> "bottom"
                      [] d = "right" -> "left"
                      [] d = "bottom" -> "top"
        read == IntegerPixels(menu.style[opposite])
        a == IF read.nan \/ read.n = 0 THEN 0 - 6 ELSE read.n
        b == IntegerPixels(menu.style["border-bottom-width"])
        computed == [radicand |-> 2 * b.n * b.n, minus |-> a]
    IN IF b.nan
         THEN ~menu.offset.returned
         ELSE /\ menu.offset.returned
              /\ computed # Zero
              /\ d \in {"left", "right"}
                   => (menu.offset.top = Zero /\ menu.offset.left = computed)
              /\ d \in {"top", "bottom"}
                   => (menu.offset.left = Zero /\ menu.offset.top = computed)

\* For the direction left and an arrow whose right is auto and whose other
\* sides are 12px, with a border of 8px, the offset is left = sqrt(128) + 6 and
\* top = 0.
OffsetLeftWithDefaultArrow ==
  /\ menu.called
  /\ menu.direction = "left"
  /\ menu.style["right"] = Auto
  /\ menu.style["left"] = Px12
  /\ menu.style["top"] = Px12
  /\ menu.style["bottom"] = Px12
  /\ menu.style["border-bottom-width"] = Px8
  /\ menu.offset = [returned |-> TRUE, left |-> Length(128, 0 - 6), top |-> Zero]

====
